---- MODULE Spec2Model ----
(***************************************************************************)
(* Model of the GPACalculator client: crypto.js (src/unnamed/part_000) and *)
(* crypto-alternative.js.                                                  *)
(*                                                                         *)
(* Representation.  A JavaScript string is a sequence of code points       *)
(* (naturals, all in the basic plane), a byte array is a sequence of       *)
(* naturals in 0..255, and an error message is the sequence of its words.  *)
(* The Web Crypto primitives are modelled by their contracts: SHA-256 and  *)
(* the GCM tag are collision-free on the bounded inputs, PBKDF2 yields a   *)
(* key that is determined by, and determines, its parameters.              *)
(***************************************************************************)
EXTENDS Integers, Sequences, FiniteSets, TLC

VARIABLES
    fn,             \* the pure function under test and its arguments
    ret,            \* what it returned (NoValue before the call)
    script,         \* the script the page loads: "crypto" or "alternative"
    pc,             \* per run of the submit handler: the await it is suspended at
    loc,            \* per run: the handler's local variables
    hist,           \* per run: what the run did (a record kept for the properties)
    dom             \* the page: the elements the handler reads and writes

fnVars == <<fn, ret>>
pageVars == <<script, pc, loc, hist, dom>>
vars == <<fn, ret, script, pc, loc, hist, dom>>

NoValue == [none |-> TRUE]

(***************************************************************************)
(* Program constants (part_000 lines 5-8).                                 *)
(***************************************************************************)
PBKDF2_ITERATIONS == 100000
KEY_LENGTH == 256
GCM_IV_LENGTH == 12
GCM_TAG_LENGTH == 128

(***************************************************************************)
(* Bounds of the model.                                                    *)
(***************************************************************************)
MaxTextLen == 2         \* longest index / id drawn for the locator resolver

(***************************************************************************)
(* Sequences.                                                              *)
(***************************************************************************)
RECURSIVE Flatten(_)
Flatten(ss) == IF ss = <<>> THEN <<>> ELSE Head(ss) \o Flatten(Tail(ss))

SeqsUpTo(S, n) == UNION {[1..k -> S] : k \in 0..n}

\* String.prototype.startsWith
StartsWith(s, prefix) ==
    /\ Len(prefix) <= Len(s)
    /\ SubSeq(s, 1, Len(prefix)) = prefix

\* String.prototype.includes
Includes(s, part) ==
    \E i \in 0..(Len(s) - Len(part)) : SubSeq(s, i + 1, i + Len(part)) = part

(***************************************************************************)
(* TextEncoder.encode: UTF-8 of a sequence of code points.                 *)
(***************************************************************************)
Utf8Char(c) ==
    IF c < 128 THEN <<c>>
    ELSE IF c < 2048 THEN <<192 + (c \div 64), 128 + (c % 64)>>
    ELSE IF c < 65536
        THEN <<224 + (c \div 4096), 128 + ((c \div 64) % 64), 128 + (c % 64)>>
    ELSE <<240 + (c \div 262144), 128 + ((c \div 4096) % 64),
           128 + ((c \div 64) % 64), 128 + (c % 64)>>

TextEncode(text) == Flatten([i \in 1..Len(text) |-> Utf8Char(text[i])])

(***************************************************************************)
(* crypto.subtle.digest('SHA-256', data): 32 bytes.  The digest is taken   *)
(* to be collision-free: on inputs of up to 31 bytes this stand-in is      *)
(* injective (length, then the bytes, each shifted by its position).  The   *)
(* argument is bound once (d), so that it is evaluated once and not for    *)
(* every byte of the digest.                                               *)
(***************************************************************************)
SHA256(data) ==
    CHOOSE hashBuffer \in
        {[i \in 1..32 |->
            IF i = 1 THEN Len(d)
            ELSE IF i - 1 <= Len(d) THEN (d[i - 1] + 31 * i) % 256
            ELSE 0] : d \in {data}} : TRUE

(***************************************************************************)
(* b.toString(16).padStart(2, '0').toUpperCase(), joined.                  *)
(***************************************************************************)
\* one digit of Number.prototype.toString(16): '0'..'9', 'a'..'f'
HexDigit(d) == IF d < 10 THEN 48 + d ELSE 87 + d

RECURSIVE ToString16(_)
ToString16(b) ==
    IF b < 16 THEN <<HexDigit(b)>>
    ELSE ToString16(b \div 16) \o <<HexDigit(b % 16)>>

PadStart2(s) == IF Len(s) < 2 THEN <<48>> \o s ELSE s

\* case mapping of one code point (ASCII and Latin-1 letters)
UpperChar(c) ==
    IF (c >= 97 /\ c <= 122) \/ (c >= 224 /\ c <= 254 /\ c # 247)
        THEN c - 32 ELSE c

LowerChar(c) ==
    IF (c >= 65 /\ c <= 90) \/ (c >= 192 /\ c <= 222 /\ c # 215)
        THEN c + 32 ELSE c

ToUpperCase(s) == [i \in 1..Len(s) |-> UpperChar(s[i])]
ToLowerCase(s) == [i \in 1..Len(s) |-> LowerChar(s[i])]

HexOfByte(b) == ToUpperCase(PadStart2(ToString16(b)))

\* every byte gives two characters, so character i of the joined string
\* is a character of byte (i + 1) \div 2; the array is bound once (h)
HashHex(hashArray) ==
    CHOOSE hashHex \in
        {[i \in 1..(2 * Len(h)) |->
            HexOfByte(h[(i + 1) \div 2])[((i - 1) % 2) + 1]] :
                h \in {hashArray}} : TRUE

(***************************************************************************)
(* getHash(index), part_000 lines 15-27.                                   *)
(***************************************************************************)
getHash(index) == HashHex(SHA256(TextEncode(index)))

(***************************************************************************)
(* getEncryptedFilename(index, id), part_000 lines 35-46.                  *)
(***************************************************************************)
Delimiter == <<124>>                    \* "|"
Extension == <<46, 101, 110, 99>>       \* ".enc"

\* a resolver that joins the two values without the delimiter
getEncryptedFilename_NoDelimiter(index, id) ==
    HashHex(SHA256(TextEncode(index \o id))) \o Extension

getEncryptedFilename(index, id) ==
    LET combined == index \o Delimiter \o id
        data == TextEncode(combined)
        hashBuffer == SHA256(data)
    IN  HashHex(hashBuffer) \o Extension

(***************************************************************************)
(* TextDecoder('utf-8').decode: the WHATWG UTF-8 decoder, not fatal, so an  *)
(* ill-formed sequence becomes U+FFFD, and with ignoreBOM unset, so a       *)
(* leading byte order mark is dropped.                                     *)
(***************************************************************************)
Replacement == <<65533>>                \* U+FFFD
ByteOrderMark == <<239, 187, 191>>      \* EF BB BF, UTF-8 of U+FEFF

RECURSIVE Utf8Decode(_, _, _, _, _)
Utf8Decode(bytes, cp, needed, lower, upper) ==
    IF bytes = <<>> THEN (IF needed # 0 THEN Replacement ELSE <<>>)
    ELSE LET b == Head(bytes)
             rest == Tail(bytes)
         IN  IF needed = 0 THEN
                 IF b <= 127 THEN <<b>> \o Utf8Decode(rest, 0, 0, 128, 191)
                 ELSE IF b >= 194 /\ b <= 223
                     THEN Utf8Decode(rest, b - 192, 1, 128, 191)
                 ELSE IF b >= 224 /\ b <= 239
                     THEN Utf8Decode(rest, b - 224, 2,
                                     IF b = 224 THEN 160 ELSE 128,
                                     IF b = 237 THEN 159 ELSE 191)
                 ELSE IF b >= 240 /\ b <= 244
                     THEN Utf8Decode(rest, b - 240, 3,
                                     IF b = 240 THEN 144 ELSE 128,
                                     IF b = 244 THEN 143 ELSE 191)
                 ELSE Replacement \o Utf8Decode(rest, 0, 0, 128, 191)
             ELSE IF b < lower \/ b > upper
                 THEN Replacement \o Utf8Decode(bytes, 0, 0, 128, 191)
             ELSE IF needed = 1
                 THEN <<cp * 64 + (b - 128)>> \o Utf8Decode(rest, 0, 0, 128, 191)
             ELSE Utf8Decode(rest, cp * 64 + (b - 128), needed - 1, 128, 191)

\* a decoder that keeps a leading byte order mark (ignoreBOM: true)
TextDecode_KeepBOM(bytes) == Utf8Decode(bytes, 0, 0, 128, 191)

TextDecode(bytes) ==
    IF StartsWith(bytes, ByteOrderMark)
        THEN Utf8Decode(SubSeq(bytes, Len(ByteOrderMark) + 1, Len(bytes)),
                        0, 0, 128, 191)
        ELSE Utf8Decode(bytes, 0, 0, 128, 191)

(***************************************************************************)
(* ArrayBuffer.prototype.slice(begin, end): both ends clamped.             *)
(***************************************************************************)
Min(a, b) == IF a < b THEN a ELSE b

Slice(buffer, begin, end) ==
    SubSeq(buffer, Min(begin, Len(buffer)) + 1, Min(end, Len(buffer)))

SliceFrom(buffer, begin) == Slice(buffer, begin, Len(buffer))

(***************************************************************************)
(* getKey(id, index), part_000 lines 55-85: importKey of the password,     *)
(* then PBKDF2 deriveKey.  The derived key is the record of everything it  *)
(* was derived from.                                                       *)
(***************************************************************************)
ImportKey(format, keyData, algorithm) ==
    [format |-> format, algorithm |-> algorithm, raw |-> keyData]

DeriveKey(params, baseKey, derived) ==
    [name |-> derived.name,
     length |-> derived.length,
     password |-> baseKey.raw,
     salt |-> params.salt,
     iterations |-> params.iterations,
     hash |-> params.hash]

\* a getKey that takes the index for the password and the id for the salt
getKey_RolesSwapped(id, index) ==
    LET passwordKey == ImportKey("raw", TextEncode(index), "PBKDF2")
    IN  DeriveKey([name |-> "PBKDF2", salt |-> TextEncode(id),
                   iterations |-> PBKDF2_ITERATIONS, hash |-> "SHA-256"],
                  passwordKey,
                  [name |-> "AES-GCM", length |-> KEY_LENGTH])

getKey(id, index) ==
    LET passwordKey == ImportKey("raw", TextEncode(id), "PBKDF2")
    IN  DeriveKey([name |-> "PBKDF2", salt |-> TextEncode(index),
                   iterations |-> PBKDF2_ITERATIONS, hash |-> "SHA-256"],
                  passwordKey,
                  [name |-> "AES-GCM", length |-> KEY_LENGTH])

(***************************************************************************)
(* AES-GCM as crypto.subtle provides it.  The cipher input is the          *)
(* ciphertext followed by the tag of tagLength bits; decryption releases   *)
(* the plaintext only if the tag verifies and rejects with OperationError  *)
(* otherwise.  The tag is a collision-free function of key, iv and         *)
(* ciphertext on the inputs drawn here.                                    *)
(***************************************************************************)
RECURSIVE WeightedSum(_, _, _)
WeightedSum(bytes, i, step) ==
    IF i > Len(bytes) THEN 0
    ELSE (bytes[i] * (step * i + 1) + WeightedSum(bytes, i + 1, step)) % 256

PadTo(bytes, n) == [i \in 1..n |-> IF i <= Len(bytes) THEN bytes[i] ELSE 0]

KeyFingerprint(key) ==
    <<Len(key.password) % 256, WeightedSum(key.password, 1, 2),
      Len(key.salt) % 256, WeightedSum(key.salt, 1, 2),
      key.iterations % 256, key.length \div 8>>

KeyStream(key, iv, i) ==
    (WeightedSum(key.password, 1, 2) + 3 * WeightedSum(key.salt, 1, 2)
        + WeightedSum(iv, 1, 2) + 13 * i) % 256

GcmTag(key, iv, ciphertext, tagLength) ==
    PadTo(KeyFingerprint(key)
            \o <<WeightedSum(iv, 1, 2), Len(ciphertext) % 256,
                 WeightedSum(ciphertext, 1, 2), WeightedSum(ciphertext, 1, 4)>>
            \o ciphertext,
          tagLength \div 8)

OperationError == [name |-> "OperationError", message |-> <<>>]
NoError == [name |-> "", message |-> <<>>]

\* what the generator publishes: crypto.subtle.encrypt, the inverse of the
\* decryption below
SubtleEncrypt(algorithm, key, plain) ==
    LET ciphertext == [i \in 1..Len(plain) |->
                          (plain[i] + KeyStream(key, algorithm.iv, i)) % 256]
    IN  ciphertext \o GcmTag(key, algorithm.iv, ciphertext, algorithm.tagLength)

SubtleDecrypt(algorithm, key, data) ==
    LET tagBytes == algorithm.tagLength \div 8
        n == Len(data) - tagBytes
    IN  IF n < 0 THEN [ok |-> FALSE, error |-> OperationError, plain |-> <<>>]
        ELSE LET ciphertext == SubSeq(data, 1, n)
                 tag == SubSeq(data, n + 1, Len(data))
             IN  IF tag = GcmTag(key, algorithm.iv, ciphertext, algorithm.tagLength)
                     THEN [ok |-> TRUE, error |-> NoError,
                           plain |-> [i \in 1..n |->
                               (ciphertext[i] + 256
                                   - KeyStream(key, algorithm.iv, i)) % 256]]
                     ELSE [ok |-> FALSE, error |-> OperationError, plain |-> <<>>]

(***************************************************************************)
(* decrypt(key, encryptedData), part_000 lines 94-143.  decryptStart is    *)
(* the function up to its await of crypto.subtle.decrypt, decryptResume    *)
(* what follows the await; both end in the catch block when they throw.    *)
(* A frame records the call: its state, the iv and cipher input it split   *)
(* off, how often it invoked the cipher, the error first raised and the    *)
(* error or value that leaves the function.                                *)
(***************************************************************************)
TooShortError ==
    [name |-> "Error",
     message |-> <<"Invalid", "encrypted", "file:", "too", "short", "to",
                   "contain", "IV">>]

AuthenticationError ==
    [name |-> "Error",
     message |-> <<"Decryption", "failed:", "Invalid", "credentials", "or",
                   "corrupted", "file.", "The", "authentication", "tag",
                   "verification", "failed.">>]

MalformedError ==
    [name |-> "Error",
     message |-> <<"Invalid", "encrypted", "file", "format:", "File", "is",
                   "too", "small.">>]

\* a catch block that looks for the wrong error name
decryptCatch_WrongName(error) ==
    IF error.name = "Error" THEN AuthenticationError
    ELSE IF Includes(error.message, <<"too", "short">>) THEN MalformedError
    ELSE [name |-> "Error",
          message |-> <<"Decryption", "failed:">> \o error.message]

\* the catch block, lines 131-142: the error that leaves decrypt
decryptCatch(error) ==
    IF error.name = "OperationError" THEN AuthenticationError
    ELSE IF Includes(error.message, <<"too", "short">>) THEN MalformedError
    ELSE [name |-> "Error",
          message |-> <<"Decryption", "failed:">> \o error.message]

Frame(state, iv, ciphertext, calls, raised, error, value) ==
    [state |-> state, iv |-> iv, ciphertext |-> ciphertext,
     cipherCalls |-> calls, raised |-> raised, error |-> error,
     value |-> value]

\* a length check that is one byte too lenient
decryptStart_OffByOne(key, encryptedData) ==
    IF Len(encryptedData) < GCM_IV_LENGTH - 1
        THEN Frame("thrown", <<>>, <<>>, 0, TooShortError,
                   decryptCatch(TooShortError), <<>>)
        ELSE Frame("awaitCipher", Slice(encryptedData, 0, GCM_IV_LENGTH),
                   SliceFrom(encryptedData, GCM_IV_LENGTH), 1,
                   NoError, NoError, <<>>)

\* a split that strips the tag off the cipher input
decryptStart_TagStripped(key, encryptedData) ==
    IF Len(encryptedData) < GCM_IV_LENGTH
        THEN Frame("thrown", <<>>, <<>>, 0, TooShortError,
                   decryptCatch(TooShortError), <<>>)
        ELSE Frame("awaitCipher", Slice(encryptedData, 0, GCM_IV_LENGTH),
                   Slice(encryptedData, GCM_IV_LENGTH,
                         Len(encryptedData) - GCM_TAG_LENGTH \div 8), 1,
                   NoError, NoError, <<>>)

decryptStart(key, encryptedData) ==
    IF Len(encryptedData) < GCM_IV_LENGTH
        THEN Frame("thrown", <<>>, <<>>, 0, TooShortError,
                   decryptCatch(TooShortError), <<>>)
        ELSE Frame("awaitCipher", Slice(encryptedData, 0, GCM_IV_LENGTH),
                   SliceFrom(encryptedData, GCM_IV_LENGTH), 1,
                   NoError, NoError, <<>>)

decryptResume(frame, key) ==
    LET settled == SubtleDecrypt([name |-> "AES-GCM", iv |-> frame.iv,
                                  tagLength |-> GCM_TAG_LENGTH],
                                 key, frame.ciphertext)
    IN  IF settled.ok
            THEN [frame EXCEPT !.state = "returned",
                               !.value = TextDecode(settled.plain)]
            ELSE [frame EXCEPT !.state = "thrown",
                               !.raised = settled.error,
                               !.error = decryptCatch(settled.error)]

(***************************************************************************)
(* The page.  Two activations of the submit handler are kept: the one in   *)
(* flight and the one before it.  The elements are those the handler looks *)
(* up (lines 171-178): #loading, #error, #content-display, the submit      *)
(* button, the form and .container.                                        *)
(***************************************************************************)
Runs == {1, 2}

EmptyLocals ==
    [indexNumber |-> <<>>, id |-> <<>>, filename |-> <<>>,
     encryptedData |-> <<>>, passwordKey |-> NoValue, key |-> NoValue,
     frame |-> NoValue]

NoSteps ==
    [resolve |-> 0, fetch |-> 0, derive |-> 0, decrypt |-> 0, cipher |-> 0,
     render |-> 0]

NoHistory ==
    [index |-> <<>>, id |-> <<>>, requested |-> <<>>, steps |-> NoSteps,
     failedAt |-> "", raised |-> NoError, caught |-> NoError, shown |-> <<>>,
     outcome |-> "none", rendered |-> "", outage |-> FALSE,
     damage |-> "none", busyAtEnd |-> FALSE, plainAtEnd |-> FALSE,
     bannerAtEnd |-> FALSE, log |-> <<>>,
     fetched |-> <<>>, key |-> NoValue, blob |-> <<>>]

InitialPage ==
    [loading |-> FALSE, errorShow |-> FALSE, errorText |-> <<>>,
     contentShow |-> FALSE, content |-> <<>>, submitDisabled |-> FALSE,
     formHidden |-> FALSE, expanded |-> FALSE, replaced |-> FALSE,
     written |-> <<>>]

PageIdle ==
    /\ script = "crypto"
    /\ pc = [r \in Runs |-> "idle"]
    /\ loc = [r \in Runs |-> EmptyLocals]
    /\ hist = [r \in Runs |-> NoHistory]
    /\ dom = InitialPage

(***************************************************************************)
(* The locator resolver as a pure function: resolve(a, b) and resolve(b, a)*)
(* for every pair of texts over a small alphabet that holds the delimiter. *)
(***************************************************************************)
TextAlphabet == {124, 120, 233}         \* "|", "x", U+00E9

Texts == SeqsUpTo(TextAlphabet, MaxTextLen)

InitResolve ==
    /\ fn \in [name : {"resolve"}, index : Texts, id : Texts]
    /\ ret = NoValue
    /\ PageIdle

ResolveCall ==
    /\ fn.name = "resolve"
    /\ ret = NoValue
    /\ ret' = [forward |-> getEncryptedFilename(fn.index, fn.id),
               swapped |-> getEncryptedFilename(fn.id, fn.index)]
    /\ UNCHANGED <<fn, pageVars>>

NextResolve == ResolveCall

SpecResolve == InitResolve /\ [][NextResolve]_vars

HasDelimiter(text) == \E i \in 1..Len(text) : <<text[i]>> = Delimiter

\* C2 as stated: for all a # b, resolve(a, b) # resolve(b, a), delimiter
\* or not.
C2_OrderSensitiveAllStrings ==
    (ret # NoValue /\ fn.index # fn.id) => ret.forward # ret.swapped

\* C2 amended: for all a # b of which neither contains the delimiter "|",
\* resolve(a, b) # resolve(b, a).
C2_OrderSensitiveNoDelimiter ==
    (/\ ret # NoValue
     /\ fn.index # fn.id
     /\ ~HasDelimiter(fn.index)
     /\ ~HasDelimiter(fn.id))
        => ret.forward # ret.swapped

\* two different delimiter-free values, one of them more than one character
\* long, have been resolved both ways round
C2_Witness ==
    /\ ret # NoValue
    /\ fn.index # fn.id
    /\ ~HasDelimiter(fn.index)
    /\ ~HasDelimiter(fn.id)
    /\ Len(fn.index) > 1
    /\ fn.id # <<>>
    /\ Len(ret.forward) = 64 + Len(Extension)

(***************************************************************************)
(* decrypt as a pure function.  The blob is what the generator publishes   *)
(* for a plaintext (nonce, then the cipher's output), possibly damaged:    *)
(* one bit of the ciphertext-or-tag portion flipped, or the blob cut to a  *)
(* shorter length.  The key is the one the blob was encrypted under or one *)
(* derived from a wrong id, a wrong index or exchanged roles.              *)
(***************************************************************************)
MaxPlainLen == 2        \* longest plaintext, in code points

RegIndex == <<50, 48, 50, 48, 49, 50, 51>>              \* "2020123"
RegId == <<57, 56, 55, 54, 53, 52, 51, 50, 49>>         \* "987654321"
OtherIndex == <<50, 48, 50, 48, 49, 50, 52>>            \* "2020124"
OtherId == <<57, 56, 55, 54, 53, 52, 51, 50, 48>>       \* "987654320"

PlainAlphabet == {60, 104, 233, 65279}  \* "<", "h", U+00E9, U+FEFF

PlainTexts == SeqsUpTo(PlainAlphabet, MaxPlainLen)

\* byte sequences that are not UTF-8: a stray FF, a lead byte without its
\* continuation, an encoded surrogate, an overlong form, a Latin-1 letter
IllFormed ==
    {<<255>>, <<195>>, <<104, 195>>, <<237, 160, 128>>, <<192, 128>>,
     <<233, 104>>}

Plains ==
    {[kind |-> "text", text |-> t, bytes |-> TextEncode(t)] : t \in PlainTexts}
        \cup {[kind |-> "bytes", text |-> <<>>, bytes |-> b] : b \in IllFormed}

Nonces ==
    {[i \in 1..GCM_IV_LENGTH |-> (17 * i) % 256],
     [i \in 1..GCM_IV_LENGTH |-> 255]}

\* the published blob: [12-byte IV][encrypted data with 16-byte auth tag]
Blob(key, nonce, plain) ==
    nonce \o SubtleEncrypt([name |-> "AES-GCM", iv |-> nonce,
                            tagLength |-> GCM_TAG_LENGTH], key, plain)

FlipBit(b, j) == IF (b \div (2 ^ j)) % 2 = 1 THEN b - 2 ^ j ELSE b + 2 ^ j

NoDamage == [kind |-> "none", at |-> 0, bit |-> 0]

Damages(blob) ==
    {NoDamage}
        \cup {[kind |-> "flip", at |-> p, bit |-> j] :
                p \in (GCM_IV_LENGTH + 1)..Len(blob), j \in 0..7}
        \cup {[kind |-> "cut", at |-> n, bit |-> 0] : n \in 0..(Len(blob) - 1)}

Damaged(blob, d) ==
    IF d.kind = "flip" THEN [blob EXCEPT ![d.at] = FlipBit(blob[d.at], d.bit)]
    ELSE IF d.kind = "cut" THEN SubSeq(blob, 1, d.at)
    ELSE blob

RightKey == getKey(RegId, RegIndex)

WrongKeys ==
    {getKey(OtherId, RegIndex), getKey(RegId, OtherIndex),
     getKey(RegIndex, RegId)}

InitDecrypt ==
    /\ \E n \in Nonces, p \in Plains :
        LET blob == Blob(RightKey, n, p.bytes)
        IN  \/ \E d \in Damages(blob) :
                fn = [name |-> "decrypt", key |-> RightKey,
                      encryptedData |-> Damaged(blob, d),
                      plain |-> p, nonce |-> n, damage |-> d]
            \/ \E k \in WrongKeys, d \in {x \in Damages(blob) : x.kind # "flip"} :
                fn = [name |-> "decrypt", key |-> k,
                      encryptedData |-> Damaged(blob, d),
                      plain |-> p, nonce |-> n, damage |-> d]
    /\ ret = NoValue
    /\ PageIdle

\* the call, up to the await of the cipher
DecryptCall ==
    /\ fn.name = "decrypt"
    /\ ret = NoValue
    /\ ret' = decryptStart(fn.key, fn.encryptedData)
    /\ UNCHANGED <<fn, pageVars>>

\* the cipher settles and decrypt runs to its end
CipherSettles ==
    /\ fn.name = "decrypt"
    /\ ret # NoValue
    /\ ret.state = "awaitCipher"
    /\ ret' = decryptResume(ret, fn.key)
    /\ UNCHANGED <<fn, pageVars>>

NextDecrypt == DecryptCall \/ CipherSettles

SpecDecrypt == InitDecrypt /\ [][NextDecrypt]_vars

decryptCalled == ret # NoValue
decryptEnded == ret # NoValue /\ ret.state # "awaitCipher"

\* bytes that are the UTF-8 encoding of some text
WellFormedUtf8(bytes) == TextEncode(TextDecode_KeepBOM(bytes)) = bytes

\* C1: decrypt on a blob of 0..11 bytes fails with the "file is too small"
\* error, which is not the authentication failure, and never invokes the
\* cipher.
C1_ShortBlobIsMalformed ==
    (decryptCalled /\ Len(fn.encryptedData) \in 0..11)
        => /\ ret.state = "thrown"
           /\ ret.error = MalformedError
           /\ ret.error # AuthenticationError
           /\ ret.cipherCalls = 0

\* decrypt has been called on a blob of exactly 11 bytes and has ended
C1_Witness ==
    /\ decryptEnded
    /\ Len(fn.encryptedData) = 11
    /\ ret.state = "thrown"

\* C5: on a blob of at least 12 bytes, a key derived from a wrong id or
\* index and a flipped bit of the ciphertext-or-tag portion both end decrypt
\* with the one authentication failure, and no plaintext is ever returned.
C5_OneAuthenticationFailure ==
    (/\ decryptCalled
     /\ Len(fn.encryptedData) >= 12
     /\ (fn.key # RightKey \/ fn.damage.kind = "flip"))
        => /\ ret.value = <<>>
           /\ ret.state # "returned"
           /\ decryptEnded => ret.error = AuthenticationError

\* decrypt has ended on a published blob whose last tag bit was flipped
C5_Witness ==
    /\ decryptEnded
    /\ fn.key = RightKey
    /\ fn.damage = [kind |-> "flip", at |-> Len(fn.encryptedData), bit |-> 0]
    /\ Len(fn.plain.bytes) > 0
    /\ ret.state = "thrown"

\* C6: when the tag verifies and the recovered bytes are not UTF-8, decrypt
\* fails with an error of its own (neither the malformed-blob nor the
\* authentication failure) and returns no text.
C6_IllFormedBytesRejected ==
    (/\ decryptEnded
     /\ fn.key = RightKey
     /\ fn.damage.kind = "none"
     /\ ~WellFormedUtf8(fn.plain.bytes))
        => /\ ret.state = "thrown"
           /\ ret.error \notin {NoError, MalformedError, AuthenticationError}
           /\ ret.value = <<>>

\* C10 as stated: for every text p, decrypt(k, n || encrypt(k, n, p)) = p.
C10_RoundTripEveryText ==
    (/\ decryptEnded
     /\ fn.key = RightKey
     /\ fn.damage.kind = "none"
     /\ fn.plain.kind = "text")
        => /\ ret.state = "returned"
           /\ ret.value = fn.plain.text

\* C10 amended: for every text p that does not begin with U+FEFF,
\* decrypt(k, n || encrypt(k, n, p)) = p; and whenever decrypt invokes the
\* cipher, the iv is bytes 0..11 of the blob and the cipher input is all the
\* rest, tag included, so that iv followed by cipher input is the blob.
C10_RoundTripWithoutLeadingBOM ==
    /\ (decryptCalled /\ ret.cipherCalls > 0)
        => /\ ret.iv = SubSeq(fn.encryptedData, 1, 12)
           /\ ret.iv \o ret.ciphertext = fn.encryptedData
    /\ (/\ decryptEnded
        /\ fn.key = RightKey
        /\ fn.damage.kind = "none"
        /\ fn.plain.kind = "text"
        /\ ~StartsWith(fn.plain.text, <<65279>>))
        => /\ ret.state = "returned"
           /\ ret.value = fn.plain.text
           /\ ret.iv = fn.nonce
           /\ Len(ret.ciphertext) = Len(fn.plain.bytes) + 16

\* a two-character text with a two-byte character has come back from decrypt
C10_Witness ==
    /\ decryptEnded
    /\ fn.key = RightKey
    /\ fn.damage.kind = "none"
    /\ fn.plain.kind = "text"
    /\ fn.plain.text = <<60, 233>>
    /\ ret.state = "returned"
    /\ ret.value = <<60, 233>>

(***************************************************************************)
(* String.prototype.trim and the test for markup (lines 230-231).           *)
(***************************************************************************)
IsWhiteSpace(c) ==
    \/ c \in {9, 10, 11, 12, 13, 32, 160, 5760, 8232, 8233, 8239, 8287,
              12288, 65279}
    \/ (c >= 8192 /\ c <= 8202)

RECURSIVE TrimStart(_)
TrimStart(s) ==
    IF s # <<>> /\ IsWhiteSpace(Head(s)) THEN TrimStart(Tail(s)) ELSE s

RECURSIVE TrimEnd(_)
TrimEnd(s) ==
    IF s # <<>> /\ IsWhiteSpace(s[Len(s)])
        THEN TrimEnd(SubSeq(s, 1, Len(s) - 1)) ELSE s

Trim(s) == TrimEnd(TrimStart(s))

Doctype == <<60, 33, 100, 111, 99, 116, 121, 112, 101>>    \* "<!doctype"
HtmlRoot == <<60, 104, 116, 109, 108>>                     \* "<html"

\* a test for markup that does not fold the case
IsMarkup_CaseSensitive(decryptedContent) ==
    \/ StartsWith(Trim(decryptedContent), Doctype)
    \/ StartsWith(Trim(decryptedContent), HtmlRoot)

IsMarkup(decryptedContent) ==
    \/ StartsWith(ToLowerCase(Trim(decryptedContent)), Doctype)
    \/ StartsWith(ToLowerCase(Trim(decryptedContent)), HtmlRoot)

(***************************************************************************)
(* fetchFile(filename), lines 150-162, and the server it asks.  The files  *)
(* directory holds the blob of the registered identity under the name each *)
(* script asks for.                                                        *)
(***************************************************************************)
Digits == <<"0", "1", "2", "3", "4", "5", "6", "7", "8", "9">>

RECURSIVE NumberToString(_)
NumberToString(n) ==
    IF n < 10 THEN Digits[n + 1]
    ELSE NumberToString(n \div 10) \o Digits[(n % 10) + 1]

PublishedNames == {getEncryptedFilename(RegIndex, RegId), getHash(RegIndex)}

Published(filename) == filename \in PublishedNames

Responses(filename) ==
    {[ok |-> FALSE, status |-> 503,
      statusText |-> <<"Service", "Unavailable">>]}
        \cup (IF Published(filename)
                THEN {[ok |-> TRUE, status |-> 200, statusText |-> <<"OK">>]}
                ELSE {[ok |-> FALSE, status |-> 404,
                       statusText |-> <<"Not", "Found">>]})

\* line 158
FetchFileError(response) ==
    [name |-> "Error",
     message |-> <<"Failed", "to", "fetch", "file:",
                   NumberToString(response.status)>> \o response.statusText]

\* rejections of the platform: no crypto.subtle, no network, no key
SubtleUnavailable ==
    [name |-> "TypeError",
     message |-> <<"Cannot", "read", "properties", "of", "undefined">>]

NetworkError == [name |-> "TypeError", message |-> <<"Failed", "to", "fetch">>]

(***************************************************************************)
(* What the server can hold for the registered identity: one of a few      *)
(* documents, encrypted under the identity's key, as published or damaged. *)
(***************************************************************************)
Documents ==
    {<<60, 72, 84, 77, 76, 62>>,                                \* "<HTML>"
     <<32, 10, 60, 33, 100, 111, 99, 116, 121, 112, 101>>,      \* " \n<!doctype"
     <<71, 80, 65, 32, 51, 46, 57>>,                            \* "GPA 3.9"
     <<120, 60, 104, 116, 109, 108>>,                           \* "x<html"
     <<>>}

ServedNonce == [i \in 1..GCM_IV_LENGTH |-> (17 * i) % 256]

\* the document the damaged blobs are made from
DamagedDocument == <<71, 80, 65, 32, 51, 46, 57>>                   \* "GPA 3.9"

ServedDamages(blob) ==
    {[kind |-> "flip", at |-> Len(blob), bit |-> 0],
     [kind |-> "flip", at |-> GCM_IV_LENGTH + 1, bit |-> 7],
     [kind |-> "cut", at |-> 0, bit |-> 0],
     [kind |-> "cut", at |-> GCM_IV_LENGTH - 1, bit |-> 0],
     [kind |-> "cut", at |-> GCM_IV_LENGTH, bit |-> 0]}

PublishedBlob(doc) == Blob(RightKey, ServedNonce, TextEncode(doc))

\* the bodies a successful response can carry
Served ==
    {[data |-> PublishedBlob(doc), damage |-> "none"] : doc \in Documents}
        \cup {[data |-> Damaged(PublishedBlob(DamagedDocument), d),
                damage |-> d.kind] :
                    d \in ServedDamages(PublishedBlob(DamagedDocument))}

FormIndexes == {RegIndex, <<32>> \o RegIndex \o <<9>>, OtherIndex}
FormIds == {RegId, OtherId}

(***************************************************************************)
(* The submit handler, part_000 lines 167-271 and crypto-alternative.js    *)
(* lines 7-131.                                                            *)
(***************************************************************************)
\* a "Reset UI" that leaves the submit button enabled
ResetUI_ButtonLeftEnabled(d) ==
    [d EXCEPT !.loading = TRUE, !.errorShow = FALSE, !.contentShow = FALSE,
              !.content = <<>>]

\* "Reset UI", lines 180-185
ResetUI(d) ==
    [d EXCEPT !.loading = TRUE, !.errorShow = FALSE, !.contentShow = FALSE,
              !.content = <<>>, !.submitDisabled = TRUE]

\* a handler that shows one fixed text whatever the error
ErrorText_Fixed(error) == <<"Error:", "Something", "went", "wrong">>

\* line 265
ErrorText(error) == <<"Error:">> \o error.message

\* a catch block that also shows the content display
CatchBlock_ShowsContent(d, error) ==
    [d EXCEPT !.errorText = ErrorText(error), !.errorShow = TRUE,
              !.contentShow = TRUE]

\* the catch block, lines 263-266
CatchBlock(d, error) ==
    [d EXCEPT !.errorText = ErrorText(error), !.errorShow = TRUE]

\* a finally block that hides the indicator and leaves the button disabled
FinallyBlock_ButtonLeftDisabled(d) == [d EXCEPT !.loading = FALSE]

\* the finally block, lines 267-270
FinallyBlock(d) == [d EXCEPT !.loading = FALSE, !.submitDisabled = FALSE]

BackButton == [tag |-> "button", text |-> <<>>]

\* the back button's onclick, lines 220-226
BackOnClick(d) ==
    [d EXCEPT !.expanded = FALSE, !.formHidden = FALSE,
              !.contentShow = FALSE, !.content = <<>>, !.errorShow = FALSE]

\* step 5 of crypto.js, lines 208-261
RenderCrypto(d, decryptedContent) ==
    [d EXCEPT !.expanded = TRUE, !.formHidden = TRUE,
              !.content = d.content \o
                  <<BackButton,
                    IF IsMarkup(decryptedContent)
                        THEN [tag |-> "iframe", text |-> decryptedContent]
                        ELSE [tag |-> "pre", text |-> decryptedContent]>>,
              !.contentShow = TRUE]

\* step 5 of crypto-alternative.js, lines 48-121
RenderAlternative(d, decryptedContent) ==
    IF IsMarkup(decryptedContent)
        THEN [d EXCEPT !.replaced = TRUE, !.written = decryptedContent]
        ELSE [d EXCEPT !.expanded = TRUE, !.formHidden = TRUE,
                       !.content = d.content \o
                           <<BackButton,
                             [tag |-> "pre", text |-> decryptedContent]>>,
                       !.contentShow = TRUE]

Render(d, decryptedContent) ==
    IF script = "crypto" THEN RenderCrypto(d, decryptedContent)
    ELSE RenderAlternative(d, decryptedContent)

\* steps 1-2: the name each script hands to fetchFile
RequestedName(indexNumber, id) ==
    IF script = "crypto" THEN getEncryptedFilename(indexNumber, id)
    ELSE getHash(indexNumber)

\* a try block in which a failed fetch does not end the run
NextPc_GoesOnAfterFailedFetch(at, ok) ==
    IF ~ok /\ at = "fetch" THEN "body"
    ELSE IF ~ok THEN "done"
    ELSE CASE at = "digest" -> "fetch"
           [] at = "fetch" -> "body"
           [] at = "body" -> "importKey"
           [] at = "importKey" -> "deriveKey"
           [] at = "deriveKey" -> "cipher"
           [] OTHER -> "done"

\* a try block that fetches again, without end, after a failed fetch
NextPc_RetriesFailedFetch(at, ok) ==
    IF ~ok /\ at = "fetch" THEN "fetch"
    ELSE IF ~ok THEN "done"
    ELSE CASE at = "digest" -> "fetch"
           [] at = "fetch" -> "body"
           [] at = "body" -> "importKey"
           [] at = "importKey" -> "deriveKey"
           [] at = "deriveKey" -> "cipher"
           [] OTHER -> "done"

\* a try block that calls getKey and decrypt without awaiting fetchFile
NextPc_SkipsFetch(at, ok) ==
    IF ~ok THEN "done"
    ELSE CASE at = "digest" -> "importKey"
           [] at = "importKey" -> "deriveKey"
           [] at = "deriveKey" -> "cipher"
           [] OTHER -> "done"

\* the order of the awaits in the try block: where a run is suspended next
NextPc(at, ok) ==
    IF ~ok THEN "done"
    ELSE CASE at = "digest" -> "fetch"
           [] at = "fetch" -> "body"
           [] at = "body" -> "importKey"
           [] at = "importKey" -> "deriveKey"
           [] at = "deriveKey" -> "cipher"
           [] OTHER -> "done"

InFlight(r) == pc[r] \notin {"idle", "done"}

\* plaintext on the page: in #content-display, shown or not, or written
\* over the document
PlainOnPage(d) == d.content # <<>> \/ d.contentShow \/ d.written # <<>>

\* a step is started / an awaited call has returned: kept in the run's log
Note(h, event) == [h EXCEPT !.log = Append(@, event)]

Bump(h, step) == [Note(h, step) EXCEPT !.steps[step] = @ + 1]

\* line 205: decrypt(key, encryptedData) is called
Handed(h, key, encryptedData) ==
    [Bump(h, "decrypt") EXCEPT !.key = key, !.blob = encryptedData]

\* a step of run r throws: catch, finally, and the handler returns
Fail(r, h, step, raised, error, outage) ==
    \E d \in {FinallyBlock(CatchBlock(dom, error))} :
        /\ dom' = d
        /\ pc' = [pc EXCEPT ![r] = NextPc(pc[r], FALSE)]
        /\ loc' = [loc EXCEPT ![r] = IF NextPc(pc[r], FALSE) = "done"
                                        THEN EmptyLocals ELSE @]
        /\ hist' = [hist EXCEPT ![r] =
                        [h EXCEPT !.failedAt = step, !.raised = raised,
                                  !.caught = error,
                                  !.shown = d.errorText,
                                  !.outcome = "error",
                                  !.outage = outage,
                                  !.busyAtEnd = d.loading \/ d.submitDisabled,
                                  !.plainAtEnd = PlainOnPage(d),
                                  !.bannerAtEnd = d.errorShow]]

\* the listener: lines 168-190, up to the await of the digest.  Activation
\* r is free, and the page has not been replaced by a document written
\* over it.
Listener(r, indexValue, idValue) ==
    /\ pc[r] \in {"idle", "done"}
    /\ ~dom.replaced
    /\ pc' = [pc EXCEPT ![r] = "digest"]
    /\ loc' = [loc EXCEPT ![r] =
                  [EmptyLocals EXCEPT !.indexNumber = Trim(indexValue),
                                      !.id = Trim(idValue)]]
    /\ dom' = ResetUI(dom)
    /\ hist' = [hist EXCEPT ![r] =
                   Bump([NoHistory EXCEPT !.index = Trim(indexValue),
                                          !.id = Trim(idValue)], "resolve")]
    /\ UNCHANGED <<fnVars, script>>

\* a submit event from the user, who can submit only while the form is
\* shown and its button enabled
Submit(r, indexValue, idValue) ==
    /\ ~dom.submitDisabled
    /\ ~dom.formHidden
    /\ Listener(r, indexValue, idValue)

\* the digest settles: the name is built and fetchFile called
DigestSettles(r) ==
    /\ pc[r] = "digest"
    /\ \/ \E filename \in {RequestedName(loc[r].indexNumber, loc[r].id)} :
              /\ pc' = [pc EXCEPT ![r] = NextPc("digest", TRUE)]
              /\ loc' = [loc EXCEPT ![r].filename = filename]
              /\ hist' = [hist EXCEPT ![r] =
                             Bump(Note([@ EXCEPT !.requested = filename],
                                       "resolved"), "fetch")]
              /\ dom' = dom
       \/ Fail(r, hist[r], "resolve", SubtleUnavailable, SubtleUnavailable, TRUE)
    /\ UNCHANGED <<fnVars, script>>

\* fetch settles: lines 155-161
FetchSettles(r) ==
    /\ pc[r] = "fetch"
    /\ \/ \E response \in Responses(loc[r].filename) :
            IF ~response.ok
                THEN Fail(r, hist[r], "fetch", FetchFileError(response),
                          FetchFileError(response), response.status # 404)
                ELSE /\ pc' = [pc EXCEPT ![r] = NextPc("fetch", TRUE)]
                     /\ UNCHANGED <<loc, hist, dom>>
       \/ Fail(r, hist[r], "fetch", NetworkError, NetworkError, TRUE)
    /\ UNCHANGED <<fnVars, script>>

\* response.arrayBuffer() settles, line 161; then getKey is called, line 200
BodySettles(r) ==
    /\ pc[r] = "body"
    /\ \/ \E body \in Served :
            /\ pc' = [pc EXCEPT ![r] = NextPc("body", TRUE)]
            /\ loc' = [loc EXCEPT ![r].encryptedData = body.data]
            /\ hist' = [hist EXCEPT ![r] =
                           Bump(Note([@ EXCEPT !.damage = body.damage,
                                               !.fetched = body.data],
                                     "fetched"), "derive")]
            /\ dom' = dom
       \/ Fail(r, hist[r], "fetch", NetworkError, NetworkError, TRUE)
    /\ UNCHANGED <<fnVars, script>>

\* crypto.subtle.importKey settles, lines 59-65
ImportKeySettles(r) ==
    /\ pc[r] = "importKey"
    /\ \/ /\ pc' = [pc EXCEPT ![r] = NextPc("importKey", TRUE)]
          /\ loc' = [loc EXCEPT ![r].passwordKey =
                        ImportKey("raw", TextEncode(loc[r].id), "PBKDF2")]
          /\ UNCHANGED <<hist, dom>>
       \/ Fail(r, hist[r], "derive", OperationError, OperationError, TRUE)
    /\ UNCHANGED <<fnVars, script>>

\* crypto.subtle.deriveKey settles, lines 68-84; then decrypt is called,
\* line 205, and runs up to its await of the cipher
DeriveKeySettles(r) ==
    /\ pc[r] = "deriveKey"
    /\ \/ \E key \in {getKey(loc[r].id, loc[r].indexNumber)} :
          \E frame \in {decryptStart(key, loc[r].encryptedData)} :
              IF frame.state = "thrown"
                  THEN Fail(r, Handed(Note(hist[r], "derived"), key,
                                      loc[r].encryptedData),
                            "decrypt", frame.raised, frame.error, FALSE)
                  ELSE /\ pc' = [pc EXCEPT ![r] = NextPc("deriveKey", TRUE)]
                       /\ loc' = [loc EXCEPT ![r].key = key, ![r].frame = frame]
                       /\ hist' = [hist EXCEPT ![r] =
                                      Bump(Handed(Note(@, "derived"), key,
                                                  loc[r].encryptedData),
                                           "cipher")]
                       /\ dom' = dom
       \/ Fail(r, hist[r], "derive", OperationError, OperationError, TRUE)
    /\ UNCHANGED <<fnVars, script>>

\* the content is rendered, the finally block runs and the handler returns
Succeed(r, decryptedContent) ==
    \E d \in {FinallyBlock(Render(dom, decryptedContent))} :
        /\ dom' = d
        /\ pc' = [pc EXCEPT ![r] = "done"]
        /\ loc' = [loc EXCEPT ![r] = EmptyLocals]
        /\ hist' = [hist EXCEPT ![r] =
                        [Bump(@, "render") EXCEPT
                            !.outcome = "content",
                            !.rendered = IF IsMarkup(decryptedContent)
                                             THEN "markup" ELSE "text",
                            !.busyAtEnd = d.loading \/ d.submitDisabled,
                            !.plainAtEnd = PlainOnPage(d),
                            !.bannerAtEnd = d.errorShow]]

\* crypto.subtle.decrypt settles, lines 113-142; decrypt returns or throws
\* and the handler goes on to step 5 or to its catch block
CipherSettlesInRun(r) ==
    /\ pc[r] = "cipher"
    /\ \E frame \in {decryptResume(loc[r].frame, loc[r].key)} :
           IF frame.state = "thrown"
               THEN Fail(r, hist[r], "decrypt", frame.raised, frame.error, FALSE)
               ELSE Succeed(r, frame.value)
    /\ UNCHANGED <<fnVars, script>>

\* a click on the back button
BackClick ==
    /\ ~dom.replaced
    /\ dom.contentShow
    /\ \E i \in 1..Len(dom.content) : dom.content[i] = BackButton
    /\ dom' = BackOnClick(dom)
    /\ UNCHANGED <<fnVars, script, pc, loc, hist>>

Init ==
    /\ fn = [name |-> "page"]
    /\ ret = NoValue
    /\ script \in {"crypto", "alternative"}
    /\ pc = [r \in Runs |-> "idle"]
    /\ loc = [r \in Runs |-> EmptyLocals]
    /\ hist = [r \in Runs |-> NoHistory]
    /\ dom = InitialPage

Next ==
    \/ \E r \in Runs, indexValue \in FormIndexes, idValue \in FormIds :
          Submit(r, indexValue, idValue)
    \/ \E r \in Runs : DigestSettles(r)
    \/ \E r \in Runs : FetchSettles(r)
    \/ \E r \in Runs : BodySettles(r)
    \/ \E r \in Runs : ImportKeySettles(r)
    \/ \E r \in Runs : DeriveKeySettles(r)
    \/ \E r \in Runs : CipherSettlesInRun(r)
    \/ BackClick

Spec == Init /\ [][Next]_vars

Ended(r) == pc[r] = "done"
EndedInError(r) == pc[r] = "done" /\ hist[r].outcome = "error"

\* C3: in every run, of either script, the name handed to fetchFile is the
\* uppercase hex SHA-256 of index + "|" + id of that run, followed by ".enc".
C3_RequestedNameIsTheLocator ==
    \A r \in Runs :
        hist[r].steps.fetch > 0
            => hist[r].requested =
                  HashHex(SHA256(TextEncode(hist[r].index \o <<124>> \o hist[r].id)))
                      \o <<46, 101, 110, 99>>

\* the three faults of C4, in a run that met no outage of the platform
WrongId(h) == h.index = RegIndex /\ h.id # RegId
WrongIndex(h) == h.index # RegIndex /\ h.id = RegId
CorruptedBlob(h) == h.index = RegIndex /\ h.id = RegId /\ h.damage # "none"
Faulty(h) == ~h.outage /\ (WrongId(h) \/ WrongIndex(h) \/ CorruptedBlob(h))

\* C4: two ended runs, each with a wrong id, a wrong index or a corrupted
\* blob, end with the same error and the same text shown to the caller.
C4_SameErrorForEveryFault ==
    \A r1, r2 \in Runs :
        (Ended(r1) /\ Ended(r2) /\ Faulty(hist[r1]) /\ Faulty(hist[r2]))
            => /\ hist[r1].outcome = "error"
               /\ hist[r1].caught = hist[r2].caught
               /\ hist[r1].shown = hist[r2].shown

\* C7 as stated: the error that reaches the handler is the error raised at
\* the point of detection, kind and message unchanged.
C7_ErrorReachesTheTopUnchanged ==
    \A r \in Runs : EndedInError(r) => hist[r].caught = hist[r].raised

\* C7 amended: an error raised outside decrypt reaches the handler
\* unchanged; an error raised inside decrypt is replaced once, by decrypt's
\* own catch block (the too-short error by the "file is too small" error,
\* the cipher's OperationError by the "invalid credentials or corrupted
\* file" error), and the replacement reaches the handler unchanged; the
\* caller is shown "Error:" followed by the message that reached the handler.
C7_ErrorReplacedOnlyInsideDecrypt ==
    \A r \in Runs :
        EndedInError(r) =>
            /\ hist[r].failedAt # "decrypt" => hist[r].caught = hist[r].raised
            /\ hist[r].failedAt = "decrypt" =>
                  \/ /\ hist[r].raised = TooShortError
                     /\ hist[r].caught = MalformedError
                  \/ /\ hist[r].raised.name = "OperationError"
                     /\ hist[r].caught = AuthenticationError
            /\ hist[r].shown = <<"Error:">> \o hist[r].caught.message

\* one run has ended on a failed fetch and another on a too-short blob
C7_Witness ==
    \E r1, r2 \in Runs :
        /\ EndedInError(r1) /\ hist[r1].failedAt = "fetch"
        /\ hist[r1].raised.name = "Error"
        /\ EndedInError(r2) /\ hist[r2].failedAt = "decrypt"
        /\ hist[r2].raised = TooShortError

\* C8: in a run every step is attempted at most once, and after the step
\* that fails no later step is executed and the run is over.
C8_NoRetryAndNothingAfterFailure ==
    \A r \in Runs :
        LET n == hist[r].steps
        IN  /\ \A step \in DOMAIN n : n[step] <= 1
            /\ hist[r].failedAt # "" => pc[r] = "done"
            /\ hist[r].failedAt = "resolve"
                  => n.fetch + n.derive + n.decrypt + n.cipher + n.render = 0
            /\ hist[r].failedAt = "fetch"
                  => n.derive + n.decrypt + n.cipher + n.render = 0
            /\ hist[r].failedAt = "derive"
                  => n.decrypt + n.cipher + n.render = 0
            /\ hist[r].failedAt = "decrypt" => n.render = 0

\* one run has ended on a failed fetch and another on a failed decrypt
C8_Witness ==
    \E r1, r2 \in Runs :
        /\ Ended(r1) /\ hist[r1].failedAt = "fetch" /\ hist[r1].steps.fetch = 1
        /\ Ended(r2) /\ hist[r2].failedAt = "decrypt"
        /\ hist[r2].steps.cipher = 1

\* C9: a run that has ended, in content or in error, left the loading
\* indicator hidden and the submit button enabled; and whenever no run is
\* in flight the page is not busy.
C9_BusyStateClearedOnEveryExit ==
    /\ \A r \in Runs : Ended(r) => ~hist[r].busyAtEnd
    /\ (\A r \in Runs : ~InFlight(r)) => ~dom.loading /\ ~dom.submitDisabled

\* one run has ended in an error and another in rendered content
C9_Witness ==
    \E r1, r2 \in Runs :
        /\ EndedInError(r1)
        /\ Ended(r2) /\ hist[r2].outcome = "content"
        /\ ~dom.loading /\ ~dom.submitDisabled

\* C12: in every run the key handed to decrypt is the AES-GCM key of 256
\* bits derived by PBKDF2 with SHA-256 and 100000 iterations from the run's
\* own id as the password and the run's own index as the salt, and it is
\* the key the run holds while its cipher call is pending.
C12_KeyFromIdAsPasswordIndexAsSalt ==
    \A r \in Runs :
        hist[r].steps.decrypt > 0 =>
            /\ hist[r].key = [name |-> "AES-GCM", length |-> 256,
                              password |-> TextEncode(hist[r].id),
                              salt |-> TextEncode(hist[r].index),
                              iterations |-> 100000, hash |-> "SHA-256"]
            /\ pc[r] = "cipher" => loc[r].key = hist[r].key

\* two runs with different ids have each handed a key to decrypt, and one
\* of them decrypted the published document
C12_Witness ==
    \E r1, r2 \in Runs :
        /\ hist[r1].steps.decrypt = 1 /\ hist[r1].id = RegId
        /\ hist[r1].index = RegIndex /\ hist[r1].outcome = "content"
        /\ hist[r2].steps.decrypt = 1 /\ hist[r2].id = OtherId

\* C13: in every run, the call of decrypt comes after fetchFile has
\* returned the run's blob and after getKey has returned the run's key;
\* the blob handed to decrypt is the one fetchFile returned, and the fetch
\* and the derivation have each been done once by then.
C13_DecryptAfterFetchAndDerivation ==
    \A r \in Runs :
        LET log == hist[r].log
        IN  /\ \A i \in 1..Len(log) :
                  log[i] = "decrypt" =>
                      /\ \E j \in 1..(i - 1) : log[j] = "fetched"
                      /\ \E k \in 1..(i - 1) : log[k] = "derived"
            /\ hist[r].steps.decrypt > 0 =>
                  /\ hist[r].steps.fetch = 1
                  /\ hist[r].steps.derive = 1
                  /\ hist[r].blob = hist[r].fetched
                  /\ hist[r].key # NoValue

\* a run has gone through every step in order and rendered its content
C13_Witness ==
    \E r \in Runs :
        /\ hist[r].log = <<"resolve", "resolved", "fetch", "fetched", "derive",
                           "derived", "decrypt", "cipher", "render">>
        /\ hist[r].outcome = "content"
        /\ Len(hist[r].blob) > 28

(***************************************************************************)
(* Overlapping runs of crypto.js.  The listener is called for every submit *)
(* event on the form, also one dispatched by a script                      *)
(* (form.requestSubmit()) while the button is disabled or the form hidden, *)
(* so that a second activation can start while the first is suspended at   *)
(* an await.                                                               *)
(***************************************************************************)
RequestSubmit(r, indexValue, idValue) == Listener(r, indexValue, idValue)

InitOverlap ==
    /\ fn = [name |-> "page"]
    /\ ret = NoValue
    /\ PageIdle

NextOverlap ==
    \/ \E r \in Runs, indexValue \in FormIndexes, idValue \in FormIds :
          RequestSubmit(r, indexValue, idValue)
    \/ \E r \in Runs : DigestSettles(r)
    \/ \E r \in Runs : FetchSettles(r)
    \/ \E r \in Runs : BodySettles(r)
    \/ \E r \in Runs : ImportKeySettles(r)
    \/ \E r \in Runs : DeriveKeySettles(r)
    \/ \E r \in Runs : CipherSettlesInRun(r)
    \/ BackClick

SpecOverlap == InitOverlap /\ [][NextOverlap]_vars

\* C14: when runs overlap, each run holds the identity it was submitted
\* with, the blob it fetched and the key derived from its own identity, and
\* what a run in flight wrote to the page when it started (indicator shown,
\* button disabled, error and content displays hidden and emptied) has not
\* been overwritten by another run.
C14_OverlappingRunsShareNothing ==
    \A r \in Runs :
        InFlight(r) =>
            /\ loc[r].indexNumber = hist[r].index
            /\ loc[r].id = hist[r].id
            /\ pc[r] = "cipher" =>
                  /\ loc[r].key = getKey(hist[r].id, hist[r].index)
                  /\ loc[r].encryptedData = hist[r].fetched
                  /\ loc[r].frame.iv \o loc[r].frame.ciphertext
                        = hist[r].fetched
            /\ dom.loading
            /\ dom.submitDisabled
            /\ ~dom.errorShow
            /\ ~dom.contentShow
            /\ dom.content = <<>>

LiveRuns == {1}

Settles(r) ==
    \/ DigestSettles(r)
    \/ FetchSettles(r)
    \/ BodySettles(r)
    \/ ImportKeySettles(r)
    \/ DeriveKeySettles(r)
    \/ CipherSettlesInRun(r)

NextLive ==
    \/ \E r \in LiveRuns, indexValue \in FormIndexes, idValue \in FormIds :
          Submit(r, indexValue, idValue)
    \/ \E r \in LiveRuns : Settles(r)
    \/ BackClick

Fairness == \A r \in LiveRuns : WF_vars(Settles(r))

SpecLive == Init /\ [][NextLive]_vars /\ Fairness

\* C16: every run that has started ends, with its content rendered or with
\* an error shown, and with the busy-state cleared: no run stays suspended
\* for ever.
C16_EveryRunEnds ==
    \A r \in LiveRuns :
        InFlight(r) ~> (/\ Ended(r)
                        /\ \/ hist[r].outcome = "content" /\ hist[r].plainAtEnd
                           \/ hist[r].outcome = "error" /\ hist[r].bannerAtEnd
                        /\ ~hist[r].busyAtEnd)

\* a run that was suspended at the cipher has ended in an error, which the
\* page shows, with the indicator hidden and the button enabled
C16_Witness ==
    \E r \in LiveRuns :
        /\ Ended(r) /\ hist[r].outcome = "error" /\ hist[r].bannerAtEnd
        /\ hist[r].failedAt = "decrypt" /\ hist[r].steps.cipher = 1
        /\ ~hist[r].busyAtEnd
        /\ dom.errorShow /\ ~dom.loading /\ ~dom.submitDisabled

(***************************************************************************)
(* Submit events accepted only while the submit button is enabled,         *)
(* whoever dispatches them and whether the form is shown or hidden.        *)
(***************************************************************************)
SubmitWhileEnabled(r, indexValue, idValue) ==
    /\ ~dom.submitDisabled
    /\ Listener(r, indexValue, idValue)

NextGated ==
    \/ \E r \in Runs, indexValue \in FormIndexes, idValue \in FormIds :
          SubmitWhileEnabled(r, indexValue, idValue)
    \/ \E r \in Runs : Settles(r)
    \/ BackClick

SpecGated == Init /\ [][NextGated]_vars

\* C17: whenever a run is in flight the submit button is disabled and the
\* loading indicator is shown; and, submit events being accepted only while
\* the button is enabled, no two runs are in flight at the same time.
C17_BusyWhileInFlightAndOneRunAtATime ==
    /\ \A r \in Runs : InFlight(r) => dom.submitDisabled /\ dom.loading
    /\ \A r1, r2 \in Runs : (InFlight(r1) /\ InFlight(r2)) => r1 = r2

\* a run is suspended at the cipher, with the button disabled and the
\* indicator shown, after another run has ended and left the button enabled
C17_Witness ==
    \E r1, r2 \in Runs :
        /\ pc[r1] = "cipher"
        /\ Ended(r2) /\ ~hist[r2].busyAtEnd
        /\ dom.submitDisabled /\ dom.loading

(***************************************************************************)
(* The test for markup and step 5 as pure functions: every content made of *)
(* some leading characters, a marker or something close to one, and a      *)
(* tail, rendered by each script on the page as it is after "Reset UI".    *)
(***************************************************************************)
MaxPadLen == 1          \* most characters before the marker

PadAlphabet == {32, 10, 65279, 120}     \* " ", "\n", U+FEFF, "x"

Pads == SeqsUpTo(PadAlphabet, MaxPadLen)

Markers ==
    {<<60, 33, 100, 111, 99, 116, 121, 112, 101>>,      \* "<!doctype"
     <<60, 33, 68, 79, 67, 84, 89, 80, 69>>,            \* "<!DOCTYPE"
     <<60, 33, 68, 111, 99, 84, 121, 112, 101>>,        \* "<!DocType"
     <<60, 104, 116, 109, 108>>,                        \* "<html"
     <<60, 72, 84, 77, 76>>,                            \* "<HTML"
     <<60, 72, 116, 109, 108>>,                         \* "<Html"
     <<60, 104, 116, 109>>,                             \* "<htm"
     <<60, 33, 100, 111, 99, 116, 121, 112>>,           \* "<!doctyp"
     <<60, 32, 104, 116, 109, 108>>,                    \* "< html"
     <<104, 116, 109, 108>>,                            \* "html"
     <<>>}

Tails == {<<>>, <<62>>, <<32>>, <<108>>}                \* "", ">", " ", "l"

Contents == {pad \o marker \o tail : pad \in Pads, marker \in Markers,
                                      tail \in Tails}

InitClassify ==
    /\ fn \in [name : {"classify"}, content : Contents]
    /\ ret = NoValue
    /\ PageIdle

\* lines 230-231 and step 5 of each script on the content
ClassifyCall ==
    /\ fn.name = "classify"
    /\ ret = NoValue
    /\ ret' = [markup |-> IsMarkup(fn.content),
               crypto |-> RenderCrypto(ResetUI(InitialPage), fn.content),
               alternative |->
                   RenderAlternative(ResetUI(InitialPage), fn.content)]
    /\ UNCHANGED <<fn, pageVars>>

NextClassify == ClassifyCall

SpecClassify == InitClassify /\ [][NextClassify]_vars

\* content s has the marker, in any case, right after k white-space
\* characters at its start
MarkerAt(s, k, marker) ==
    /\ \A i \in 1..k : IsWhiteSpace(s[i])
    /\ Len(s) >= k + Len(marker)
    /\ \A j \in 1..Len(marker) : LowerChar(s[k + j]) = marker[j]

BeginsWithMarker(s) ==
    \E k \in 0..Len(s) :
        \/ MarkerAt(s, k, <<60, 33, 100, 111, 99, 116, 121, 112, 101>>)
        \/ MarkerAt(s, k, <<60, 104, 116, 109, 108>>)

\* C11: content is classified as markup exactly when, leading white space
\* skipped and case folded, it starts with "<!doctype" or "<html"; every
\* other content, the empty one included, is plain text; and each script
\* renders markup as a document (an iframe in crypto.js, the page itself in
\* the alternative) and plain text as a pre element holding the text.
C11_MarkupExactlyWhenMarkerLeads ==
    ret # NoValue =>
        /\ ret.markup <=> BeginsWithMarker(fn.content)
        /\ fn.content = <<>> => ~ret.markup
        /\ ret.crypto.content[Len(ret.crypto.content)] =
              [tag |-> IF BeginsWithMarker(fn.content) THEN "iframe" ELSE "pre",
               text |-> fn.content]
        /\ ret.alternative.replaced <=> BeginsWithMarker(fn.content)
        /\ IF BeginsWithMarker(fn.content)
              THEN /\ ret.alternative.written = fn.content
                   /\ ret.alternative.content = <<>>
              ELSE /\ ret.alternative.written = <<>>
                   /\ ret.alternative.content[Len(ret.alternative.content)] =
                         [tag |-> "pre", text |-> fn.content]

\* an upper-case marker after a line feed has been classified as markup
C11_Witness ==
    /\ ret # NoValue
    /\ fn.content = <<10, 60, 33, 68, 79, 67, 84, 89, 80, 69, 62>>
    /\ ret.markup
    /\ ret.alternative.replaced

====
